---- MODULE Spec2Model ----
(***************************************************************************)
(* Model of src/app/DoctorListing.tsx: the DoctorListingPage component.    *)
(*                                                                         *)
(* Strings are sequences of one-character strings, so that toLowerCase,    *)
(* includes, the fee regex and parseInt are computed and not assumed.      *)
(* A nullable string (string | null) is <<>> for null and <<s>> for the    *)
(* string s.  A query string is the sequence of its <<key, value>> pairs,  *)
(* which is what URLSearchParams parses it to and serialises it from.      *)
(*                                                                         *)
(* One action is one task of the browser's event loop: an event handler,   *)
(* or the settling of the fetch, or a navigation of the router reaching    *)
(* useSearchParams, each followed by the render and the effects React      *)
(* flushes for it.                                                         *)
(***************************************************************************)
EXTENDS Integers, Sequences, FiniteSets, TLC

VARIABLES allDoctors, filteredDoctors, isLoading, error, searchTerm,
          suggestions, selectedConsultation, selectedSpecialties, sortBy,
          searchParams, pending, phase, fetchStatus, fetchOutcome, escaped,
          initialQuery, edits, lastEvent, requests

vars == <<allDoctors, filteredDoctors, isLoading, error, searchTerm,
          suggestions, selectedConsultation, selectedSpecialties, sortBy,
          searchParams, pending, phase, fetchStatus, fetchOutcome, escaped,
          initialQuery, edits, lastEvent, requests>>

(* ---------------------------- bounds ---------------------------------- *)
MaxDoctors == 2
MaxPending == 3
MaxEdits   == 1
MaxRoster  == 7

(* ---------------------------- strings --------------------------------- *)
Null == <<>>
Some(s) == <<s>>

\* JavaScript truthiness of a string | null: null and "" are falsy.
Truthy(opt) == opt # Null /\ opt[1] # <<>>

Digits == {"0", "1", "2", "3", "4", "5", "6", "7", "8", "9"}

DigitVal(c) ==
  CASE c = "0" -> 0 [] c = "1" -> 1 [] c = "2" -> 2 [] c = "3" -> 3
    [] c = "4" -> 4 [] c = "5" -> 5 [] c = "6" -> 6 [] c = "7" -> 7
    [] c = "8" -> 8 [] c = "9" -> 9

\* String.prototype.toLowerCase on one character of the model's alphabet.
LowerChar(c) ==
  CASE c = "A" -> "a" [] c = "B" -> "b" [] c = "J" -> "j" [] c = "N" -> "n"
    [] c = "R" -> "r" [] c = "Y" -> "y" [] c = "D" -> "d" [] c = "E" -> "e"
    [] c = "T" -> "t" [] c = "X" -> "x"
    [] OTHER -> c

toLowerCase(s) == [i \in 1..Len(s) |-> LowerChar(s[i])]

\* String.prototype.includes: sub occurs in s as a contiguous substring.
includes(s, sub) ==
  \E k \in 0..(Len(s) - Len(sub)) :
    \A i \in 1..Len(sub) : s[k + i] = sub[i]

\* The length of the longest prefix of s made of decimal digits.
RECURSIVE DigitPrefixLen(_)
DigitPrefixLen(s) ==
  IF s = <<>> \/ Head(s) \notin Digits THEN 0
  ELSE 1 + DigitPrefixLen(Tail(s))

RECURSIVE DecimalValue(_, _)
DecimalValue(s, acc) ==
  IF s = <<>> THEN acc
  ELSE DecimalValue(Tail(s), 10 * acc + DigitVal(Head(s)))

\* parseInt(s, 10) for a string without leading blanks or sign: the value
\* of the leading digits, NaN (here -1, never a value of parseInt on such
\* a string) when there is none.
NaN == -1
parseInt(s) ==
  LET n == DigitPrefixLen(s)
  IN  IF n = 0 THEN NaN ELSE DecimalValue(SubSeq(s, 1, n), 0)

\* feeString?.replace(/[^0-9.]/g, ""), a missing fee being Null.
StripFee(fee) ==
  IF fee = Null THEN Null
  ELSE Some(SelectSeq(fee[1], LAMBDA c : c \in Digits \cup {"."}))

parseFee(fee) ==
  LET stripped == StripFee(fee)
      n == IF stripped = Null THEN NaN ELSE parseInt(stripped[1])
  IN  IF n = NaN \/ n = 0 THEN 0 ELSE n

\* parseExperience with /^(\d)/ for the regex: the first digit only.
parseExperienceFirstDigit(exp) ==
  IF exp = Null THEN 0
  ELSE LET n == DigitPrefixLen(exp[1])
       IN  IF n = 0 THEN 0 ELSE parseInt(SubSeq(exp[1], 1, 1))

parseExperience(exp) ==
  IF exp = Null THEN 0
  ELSE LET n == DigitPrefixLen(exp[1])
       IN  IF n = 0 THEN 0 ELSE parseInt(SubSeq(exp[1], 1, n))

(* ------------------------------ data ---------------------------------- *)
S_an      == <<"a", "n">>
S_video   == <<"v", "i", "d", "e", "o">>
S_clinic  == <<"c", "l", "i", "n", "i", "c">>
S_tele    == <<"t", "e", "l", "e">>
S_fees    == <<"f", "e", "e", "s">>
S_exp     == <<"e", "x", "p", "e", "r", "i", "e", "n", "c", "e">>
S_Dentist == <<"D", "e", "n", "t", "i", "s", "t">>
S_ENT     == <<"E", "N", "T">>

\* The doctor records a response can hold.  "R" stands for the rupee sign:
\* one character outside [0-9.].  A missing field is Null.
Doctors ==
  { [id |-> 1, name |-> <<"A", "n", "a">>,
     specialities |-> <<S_Dentist>>,
     fees |-> Some(<<"R", " ", "5", "0", "0">>),
     experience |-> Some(<<"5", " ", "Y">>),
     video_consult |-> TRUE, in_clinic |-> FALSE],
    [id |-> 2, name |-> <<"J", "a", "n">>,
     specialities |-> <<S_Dentist, S_ENT>>,
     fees |-> Some(<<"a", "b", "c">>),
     experience |-> Some(<<"1", "3", " ", "Y">>),
     video_consult |-> FALSE, in_clinic |-> TRUE],
    [id |-> 3, name |-> <<"B", "o">>,
     specialities |-> <<S_ENT>>,
     fees |-> Null,
     experience |-> Some(<<"Y", "5">>),
     video_consult |-> TRUE, in_clinic |-> TRUE] }

SeqsUpTo(S, n) == UNION { [1..k -> S] : k \in 0..n }

\* What allDoctors can hold: setAllDoctors stores whatever truthy value the
\* body parsed to, an array or not.
ArrayOf(items) == [shape |-> "array", items |-> items]
NonArray(shape) == [shape |-> shape, items |-> <<>>]

\* The values response.json() can resolve to: an array of doctor records, or
\* a JSON value that is not an array, falsy (null, "") or truthy.
FalsyShapes  == {"null", "emptyString"}
TruthyShapes == {"object", "number", "string"}

\* The arrays of doctor records: a record occurs once (id is its key).
DoctorLists ==
  { items \in SeqsUpTo(Doctors, MaxDoctors) :
      \A i, j \in 1..Len(items) : items[i] = items[j] => i = j }

Bodies ==
  { ArrayOf(items) : items \in DoctorLists }
    \cup { NonArray(shape) : shape \in FalsyShapes \cup TruthyShapes }

NoBody == NonArray("none")

FetchOutcomes ==
  { [kind |-> k, body |-> NoBody] :
      k \in {"networkError", "httpStatus", "parseError"} }
    \cup { [kind |-> "ok", body |-> b] : b \in Bodies }

\* e.message of the three failures; all three are instances of Error.
Message(kind) ==
  CASE kind = "networkError" -> "Failed to load doctor data. Failed to fetch"
    [] kind = "httpStatus"   -> "Failed to load doctor data. HTTP error! status"
    [] kind = "parseError"   -> "Failed to load doctor data. Unexpected token"

(* ------------------------- query strings ------------------------------ *)
\* URLSearchParams.get: the value of the first pair with that key, or null.
RECURSIVE Get(_, _)
Get(params, key) ==
  IF params = <<>> THEN Null
  ELSE IF Head(params)[1] = key THEN Some(Head(params)[2])
  ELSE Get(Tail(params), key)

\* URLSearchParams.getAll: the values of all pairs with that key, in order.
RECURSIVE GetAll(_, _)
GetAll(params, key) ==
  IF params = <<>> THEN <<>>
  ELSE (IF Head(params)[1] = key THEN <<Head(params)[2]>> ELSE <<>>)
         \o GetAll(Tail(params), key)

\* The filter state the URL -> state effect sets from the query string.
StateFromUrl(params) ==
  [searchTerm           |-> IF Truthy(Get(params, "search"))
                            THEN Get(params, "search")[1] ELSE <<>>,
   selectedConsultation |-> Get(params, "consultation"),
   selectedSpecialties  |-> GetAll(params, "specialty"),
   sortBy               |-> Get(params, "sort")]

\* updateUrlParams without the test of searchTerm: search is always set.
updateUrlParamsSetsEmpty(f) ==
  << <<"search", f.searchTerm>> >>
  \o (IF Truthy(f.selectedConsultation)
      THEN << <<"consultation", f.selectedConsultation[1]>> >> ELSE <<>>)
  \o [i \in 1..Len(f.selectedSpecialties) |->
        <<"specialty", f.selectedSpecialties[i]>>]
  \o (IF Truthy(f.sortBy) THEN << <<"sort", f.sortBy[1]>> >> ELSE <<>>)

\* The query string updateUrlParams hands to router.replace.
updateUrlParams(f) ==
  (IF f.searchTerm # <<>> THEN << <<"search", f.searchTerm>> >> ELSE <<>>)
  \o (IF Truthy(f.selectedConsultation)
      THEN << <<"consultation", f.selectedConsultation[1]>> >> ELSE <<>>)
  \o [i \in 1..Len(f.selectedSpecialties) |->
        <<"specialty", f.selectedSpecialties[i]>>]
  \o (IF Truthy(f.sortBy) THEN << <<"sort", f.sortBy[1]>> >> ELSE <<>>)

\* The useState initialisers of the four filter fields.
InitialFilter ==
  [searchTerm |-> <<>>, selectedConsultation |-> Null,
   selectedSpecialties |-> <<>>, sortBy |-> Null]

Filter ==
  [searchTerm |-> searchTerm, selectedConsultation |-> selectedConsultation,
   selectedSpecialties |-> selectedSpecialties, sortBy |-> sortBy]

(* ----------------------- derivation pipeline -------------------------- *)
InSeq(x, s) == \E i \in 1..Len(s) : s[i] = x

\* 1. Search filter.
SearchStage(result, f) ==
  IF f.searchTerm # <<>>
  THEN SelectSeq(result,
         LAMBDA d : includes(toLowerCase(d.name), toLowerCase(f.searchTerm)))
  ELSE result

\* The consultation test with `return true` as its last line.
ConsultationPassesDefaultTrue(d, mode) ==
  IF mode = S_video THEN d.video_consult
  ELSE IF mode = S_clinic THEN d.in_clinic
  ELSE TRUE

\* 2. Consultation type filter.
ConsultationPasses(d, mode) ==
  IF mode = S_video THEN d.video_consult
  ELSE IF mode = S_clinic THEN d.in_clinic
  ELSE FALSE

ConsultationStage(result, f) ==
  IF Truthy(f.selectedConsultation)
  THEN SelectSeq(result,
         LAMBDA d : ConsultationPasses(d, f.selectedConsultation[1]))
  ELSE result

\* The specialty test with every() over the selected names in place of
\* some() over the doctor's.
SpecialtyPassesEvery(d, selected) ==
  \A i \in 1..Len(selected) : InSeq(selected[i], d.specialities)

\* 3. Specialties filter.
SpecialtyPasses(d, selected) ==
  \E i \in 1..Len(d.specialities) : InSeq(d.specialities[i], selected)

SpecialtyStage(result, f) ==
  IF Len(f.selectedSpecialties) > 0
  THEN SelectSeq(result, LAMBDA d : SpecialtyPasses(d, f.selectedSpecialties))
  ELSE result

\* The comparator with the operands of the fee difference exchanged.
CompareFeesDescending(a, b, key) ==
  IF key = S_fees THEN parseFee(b.fees) - parseFee(a.fees)
  ELSE IF key = S_exp
       THEN parseExperience(b.experience) - parseExperience(a.experience)
  ELSE 0

\* 4. Sorting: the comparator handed to Array.prototype.sort.
Compare(a, b, key) ==
  IF key = S_fees THEN parseFee(a.fees) - parseFee(b.fees)
  ELSE IF key = S_exp
       THEN parseExperience(b.experience) - parseExperience(a.experience)
  ELSE 0

\* Array.prototype.sort is stable: x goes before the first element that the
\* comparator puts strictly after it.
RECURSIVE InsertSorted(_, _, _)
InsertSorted(x, sorted, key) ==
  IF sorted = <<>> THEN <<x>>
  ELSE IF Compare(Head(sorted), x, key) > 0 THEN <<x>> \o sorted
  ELSE <<Head(sorted)>> \o InsertSorted(x, Tail(sorted), key)

RECURSIVE StableSort(_, _, _)
StableSort(rest, sorted, key) ==
  IF rest = <<>> THEN sorted
  ELSE StableSort(Tail(rest), InsertSorted(Head(rest), sorted, key), key)

\* The sort stage without the test of sortBy: an unset key sorts by fee.
SortStageUnguarded(result, f) ==
  StableSort(result, <<>>, IF Truthy(f.sortBy) THEN f.sortBy[1] ELSE S_fees)

SortStage(result, f) ==
  IF Truthy(f.sortBy) THEN StableSort(result, <<>>, f.sortBy[1]) ELSE result

\* The value the filtering effect hands to setFilteredDoctors.
FilterAndSort(all, f) ==
  SortStage(SpecialtyStage(ConsultationStage(SearchStage(all, f), f), f), f)

\* The value the autocomplete effect hands to setSuggestions.
MaxSuggestions == 5

\* Suggest without .slice(0, 5): every match is a suggestion.
SuggestUnsliced(all, term) ==
  IF Len(term) > 0 /\ Len(all) > 0
  THEN SelectSeq(all,
         LAMBDA d : includes(toLowerCase(d.name), toLowerCase(term)))
  ELSE <<>>

Suggest(all, term) ==
  IF Len(term) > 0 /\ Len(all) > 0
  THEN LET matches == SelectSeq(all,
             LAMBDA d : includes(toLowerCase(d.name), toLowerCase(term)))
       IN  SubSeq(matches, 1, IF Len(matches) < MaxSuggestions
                              THEN Len(matches) ELSE MaxSuggestions)
  ELSE <<>>

\* The specialty names the filter panel renders a checkbox for.
SpecialtyNames(all) ==
  UNION { { all[i].specialities[j] : j \in 1..Len(all[i].specialities) } :
            i \in 1..Len(all) }

(* ------------------- specialty list of the filter panel --------------- *)
S_General == <<"G", "e", "n", "e", "r", "a", "l", " ",
               "P", "h", "y", "s", "i", "c", "i", "a", "n">>
S_Yoga    == <<"Y", "o", "g", "a">>
S_acu     == <<"a", "c", "u">>
S_Vet     == <<"V", "e", "t">>
S_vet     == <<"v", "e", "t">>

testIdOrder ==
  <<
     <<"G", "e", "n", "e", "r", "a", "l", " ", "P", "h", "y", "s", "i", "c",
       "i", "a", "n">>,
     <<"D", "e", "n", "t", "i", "s", "t">>,
     <<"D", "e", "r", "m", "a", "t", "o", "l", "o", "g", "i", "s", "t">>,
     <<"P", "a", "e", "d", "i", "a", "t", "r", "i", "c", "i", "a", "n">>,
     <<"G", "y", "n", "a", "e", "c", "o", "l", "o", "g", "i", "s", "t">>,
     <<"E", "N", "T">>,
     <<"D", "i", "a", "b", "e", "t", "o", "l", "o", "g", "i", "s", "t">>,
     <<"C", "a", "r", "d", "i", "o", "l", "o", "g", "i", "s", "t">>,
     <<"P", "h", "y", "s", "i", "o", "t", "h", "e", "r", "a", "p", "i", "s",
       "t">>,
     <<"E", "n", "d", "o", "c", "r", "i", "n", "o", "l", "o", "g", "i", "s",
       "t">>,
     <<"O", "r", "t", "h", "o", "p", "a", "e", "d", "i", "c">>,
     <<"O", "p", "h", "t", "h", "a", "l", "m", "o", "l", "o", "g", "i", "s",
       "t">>,
     <<"G", "a", "s", "t", "r", "o", "e", "n", "t", "e", "r", "o", "l", "o",
       "g", "i", "s", "t">>,
     <<"P", "u", "l", "m", "o", "n", "o", "l", "o", "g", "i", "s", "t">>,
     <<"P", "s", "y", "c", "h", "i", "a", "t", "r", "i", "s", "t">>,
     <<"U", "r", "o", "l", "o", "g", "i", "s", "t">>,
     <<"D", "i", "e", "t", "i", "t", "i", "a", "n", "/", "N", "u", "t", "r",
       "i", "t", "i", "o", "n", "i", "s", "t">>,
     <<"P", "s", "y", "c", "h", "o", "l", "o", "g", "i", "s", "t">>,
     <<"S", "e", "x", "o", "l", "o", "g", "i", "s", "t">>,
     <<"N", "e", "p", "h", "r", "o", "l", "o", "g", "i", "s", "t">>,
     <<"N", "e", "u", "r", "o", "l", "o", "g", "i", "s", "t">>,
     <<"O", "n", "c", "o", "l", "o", "g", "i", "s", "t">>,
     <<"A", "y", "u", "r", "v", "e", "d", "a">>,
     <<"H", "o", "m", "e", "o", "p", "a", "t", "h">>
  >>

\* Array.prototype.indexOf, counted from 0, -1 when x is not in s.
indexOf(s, x) ==
  IF \E i \in 1..Len(s) : s[i] = x
  THEN (CHOOSE i \in 1..Len(s) : s[i] = x /\ \A j \in 1..(i - 1) : s[j] # x) - 1
  ELSE -1

LowerLetters == <<"a", "b", "c", "d", "e", "f", "g", "h", "i", "j", "k", "l",
                  "m", "n", "o", "p", "q", "r", "s", "t", "u", "v", "w", "x",
                  "y", "z">>
UpperLetters == <<"A", "B", "C", "D", "E", "F", "G", "H", "I", "J", "K", "L",
                  "M", "N", "O", "P", "Q", "R", "S", "T", "U", "V", "W", "X",
                  "Y", "Z">>

IsUpper(c) == indexOf(UpperLetters, c) # -1

\* The primary weight of a character in the collation of localeCompare: a
\* letter has the weight of its place in the alphabet, whatever its case,
\* and every other character of the model sorts before the letters.
PrimaryWeight(c) ==
  IF indexOf(LowerLetters, c) # -1 THEN indexOf(LowerLetters, c) + 1
  ELSE IF IsUpper(c) THEN indexOf(UpperLetters, c) + 1
  ELSE 0

\* The code unit order of the same characters: capitals before small letters.
CodeUnit(c) ==
  IF IsUpper(c) THEN indexOf(UpperLetters, c) + 1
  ELSE IF indexOf(LowerLetters, c) # -1 THEN indexOf(LowerLetters, c) + 27
  ELSE 0

\* The sign of the comparison of two sequences of weights, place by place,
\* a proper prefix coming first.
RECURSIVE CompareWeights(_, _)
CompareWeights(a, b) ==
  IF a = <<>> /\ b = <<>> THEN 0
  ELSE IF a = <<>> THEN -1
  ELSE IF b = <<>> THEN 1
  ELSE IF Head(a) < Head(b) THEN -1
  ELSE IF Head(a) > Head(b) THEN 1
  ELSE CompareWeights(Tail(a), Tail(b))

PrimaryWeights(s) == [i \in 1..Len(s) |-> PrimaryWeight(s[i])]

\* The case of the characters as weights: small before capital.
CaseWeights(s) == [i \in 1..Len(s) |-> IF IsUpper(s[i]) THEN 1 ELSE 0]

CodeUnits(s) == [i \in 1..Len(s) |-> CodeUnit(s[i])]

\* a against b by code units, as the default Array.prototype.sort compares.
localeCompareByCodeUnit(a, b) == CompareWeights(CodeUnits(a), CodeUnits(b))

\* String.prototype.localeCompare: the letters decide, and between strings
\* of the same letters the case does.
localeCompare(a, b) ==
  IF CompareWeights(PrimaryWeights(a), PrimaryWeights(b)) # 0
  THEN CompareWeights(PrimaryWeights(a), PrimaryWeights(b))
  ELSE CompareWeights(CaseWeights(a), CaseWeights(b))

\* The comparator uniqueSpecialties hands to sort.
compareSpecialties(a, b) ==
  LET indexA == indexOf(testIdOrder, a)
      indexB == indexOf(testIdOrder, b)
  IN  IF indexA # -1 /\ indexB # -1 THEN indexA - indexB
      ELSE IF indexA # -1 THEN -1
      ELSE IF indexB # -1 THEN 1
      ELSE localeCompare(a, b)

RECURSIVE InsertSpecialty(_, _)
InsertSpecialty(x, sorted) ==
  IF sorted = <<>> THEN <<x>>
  ELSE IF compareSpecialties(Head(sorted), x) > 0 THEN <<x>> \o sorted
  ELSE <<Head(sorted)>> \o InsertSpecialty(x, Tail(sorted))

RECURSIVE SortSpecialties(_, _)
SortSpecialties(rest, sorted) ==
  IF rest = <<>> THEN sorted
  ELSE SortSpecialties(Tail(rest), InsertSpecialty(Head(rest), sorted))

\* Set.prototype.add over a sequence of names: the names in the order of
\* their first occurrence.
RECURSIVE AddAll(_, _)
AddAll(set, names) ==
  IF names = <<>> THEN set
  ELSE AddAll(IF InSeq(Head(names), set) THEN set
              ELSE Append(set, Head(names)), Tail(names))

RECURSIVE CollectSpecialties(_, _)
CollectSpecialties(all, set) ==
  IF all = <<>> THEN set
  ELSE CollectSpecialties(Tail(all), AddAll(set, Head(all).specialities))

uniqueSpecialties(all) == SortSpecialties(CollectSpecialties(all, <<>>), <<>>)

(* --------------------------- state machine ---------------------------- *)
\* The query strings the page can be opened with: every combination of the
\* four parameters in the order updateUrlParams writes them, and two that a
\* hand-written link can hold: another order, and a repeated parameter.
LinkFilters ==
  [searchTerm           : {<<>>, S_an},
   selectedConsultation : {Null, Some(S_tele)},
   selectedSpecialties  : {<<>>, <<S_Dentist, S_ENT>>},
   sortBy               : {Null, Some(S_fees)}]

Queries ==
  { updateUrlParams(f) : f \in LinkFilters }
    \cup { << <<"sort", S_fees>>, <<"search", S_an>> >>,
           << <<"search", S_an>>, <<"search", <<"B">>>> >> }

\* What the user can type into the search box.
SearchInputs == { <<>>, <<"B">> }

NoOutcome == [kind |-> "none", body |-> NoBody]

\* The component as constructed by its first render: the useState
\* initialisers, and useSearchParams holding the query the page was opened
\* with.  No effect has run yet.
Init ==
  /\ allDoctors = ArrayOf(<<>>)
  /\ filteredDoctors = <<>>
  /\ isLoading = TRUE
  /\ error = Null
  /\ searchTerm = InitialFilter.searchTerm
  /\ suggestions = <<>>
  /\ selectedConsultation = InitialFilter.selectedConsultation
  /\ selectedSpecialties = InitialFilter.selectedSpecialties
  /\ sortBy = InitialFilter.sortBy
  /\ searchParams \in Queries
  /\ initialQuery = searchParams
  /\ pending = <<>>
  /\ phase = "constructed"
  /\ fetchStatus = "idle"
  /\ fetchOutcome = NoOutcome
  /\ escaped = FALSE
  /\ edits = 0
  /\ lastEvent = "none"
  /\ requests = 0

\* A render with the state (all, f) and the effects React flushes after it.
\* newSpecs: setSelectedSpecialties was called (always with a fresh array,
\* so the state changes even when the contents are equal); newData:
\* setAllDoctors was called; sugg: the suggestions as the handler left them.
\* A value of allDoctors that is not an array makes the render throw
\* (uniqueSpecialties calls allDoctors.forEach), which unmounts the page.
Commit(all, f, newSpecs, newData, sugg) ==
  LET searchChanged == f.searchTerm # searchTerm
      filterChanged == \/ searchChanged
                       \/ f.selectedConsultation # selectedConsultation
                       \/ newSpecs
                       \/ f.sortBy # sortBy
  IN  /\ allDoctors' = all
      /\ searchTerm' = f.searchTerm
      /\ selectedConsultation' = f.selectedConsultation
      /\ selectedSpecialties' = f.selectedSpecialties
      /\ sortBy' = f.sortBy
      /\ IF all.shape # "array"
         THEN /\ phase' = "crashed"
              /\ pending' = pending
              /\ filteredDoctors' = filteredDoctors
              /\ suggestions' = sugg
         ELSE /\ phase' = phase
              /\ pending' = IF filterChanged
                            THEN Append(pending, updateUrlParams(f))
                            ELSE pending
              /\ filteredDoctors' = IF filterChanged \/ newData
                                    THEN FilterAndSort(all.items, f)
                                    ELSE filteredDoctors
              /\ suggestions' = IF searchChanged \/ newData
                                THEN Suggest(all.items, f.searchTerm)
                                ELSE sugg

\* The effects of the first commit, in source order, each with the values
\* of the first render (the initial state), and then the render and the
\* effects that the state set by the URL -> state effect brings about.
Mount ==
  /\ phase = "constructed"
  /\ phase' = "mounted"
  /\ LET f == StateFromUrl(searchParams)
     IN  /\ isLoading' = TRUE
         /\ error' = Null
         /\ fetchStatus' = "pending"
         /\ requests' = requests + 1
         /\ searchTerm' = f.searchTerm
         /\ selectedConsultation' = f.selectedConsultation
         /\ selectedSpecialties' = f.selectedSpecialties
         /\ sortBy' = f.sortBy
         /\ pending' = <<updateUrlParams(InitialFilter), updateUrlParams(f)>>
         /\ filteredDoctors' = FilterAndSort(allDoctors.items, f)
         /\ suggestions' = Suggest(allDoctors.items, f.searchTerm)
  /\ UNCHANGED <<allDoctors, searchParams, fetchOutcome, escaped,
                 initialQuery, edits, lastEvent>>

\* fetchData without its catch block: a failure leaves through finally.
fetchDataNoCatch(outcome) ==
  IF outcome.kind = "ok"
  THEN [allDoctors |-> IF outcome.body.shape \in FalsyShapes
                       THEN ArrayOf(<<>>) ELSE outcome.body,
        newData    |-> TRUE,
        error      |-> error,
        isLoading  |-> FALSE,
        escaped    |-> FALSE]
  ELSE [allDoctors |-> allDoctors,
        newData    |-> FALSE,
        error      |-> error,
        isLoading  |-> FALSE,
        escaped    |-> TRUE]

\* What fetchData does once the request has settled with the outcome: the
\* rest of the try block, or the catch block, and the finally block.
fetchData(outcome) ==
  IF outcome.kind = "ok"
  THEN [allDoctors |-> IF outcome.body.shape \in FalsyShapes
                       THEN ArrayOf(<<>>) ELSE outcome.body,
        newData    |-> TRUE,
        error      |-> error,
        isLoading  |-> FALSE,
        escaped    |-> FALSE]
  ELSE [allDoctors |-> allDoctors,
        newData    |-> FALSE,
        error      |-> Some(Message(outcome.kind)),
        isLoading  |-> FALSE,
        escaped    |-> FALSE]

\* FetchSettle with a retry: a failed request is issued again.
FetchSettleRetrying(outcome) ==
  /\ phase = "mounted"
  /\ fetchStatus = "pending"
  /\ fetchOutcome' = outcome
  /\ LET r == fetchData(outcome)
     IN  /\ error' = r.error
         /\ escaped' = r.escaped
         /\ IF outcome.kind = "ok"
            THEN /\ fetchStatus' = "settled"
                 /\ isLoading' = r.isLoading
                 /\ requests' = requests
            ELSE /\ fetchStatus' = "pending"
                 /\ isLoading' = TRUE
                 /\ requests' = requests + 1
         /\ Commit(r.allDoctors, Filter, FALSE, r.newData, suggestions)
  /\ UNCHANGED <<searchParams, initialQuery, edits, lastEvent>>

\* The request settles: the promise fetchData awaits resolves or rejects,
\* and the rest of fetchData runs.  The effect that calls fetchData has no
\* dependencies, so it ran once, in Mount, and nothing here runs it again.
FetchSettle(outcome) ==
  /\ phase = "mounted"
  /\ fetchStatus = "pending"
  /\ fetchStatus' = "settled"
  /\ fetchOutcome' = outcome
  /\ LET r == fetchData(outcome)
     IN  /\ error' = r.error
         /\ isLoading' = r.isLoading
         /\ escaped' = r.escaped
         /\ Commit(r.allDoctors, Filter, FALSE, r.newData, suggestions)
  /\ UNCHANGED <<searchParams, initialQuery, edits, lastEvent, requests>>

\* A navigation issued by router.replace reaches the page: useSearchParams
\* returns the query of pending[i].  router.replace returns at once and the
\* navigation is applied later, in the order of the calls; the page has no
\* say in whether a navigation still in flight is applied before a later one
\* or is superseded by it, so i is any entry of the queue and the entries
\* before it leave the queue with it.  The searchParams object changes only
\* when the URL does; the URL -> state effect then sets the four fields from
\* it, and the state -> URL effect runs for the state it set.
DeliverReplace(i) ==
  /\ phase \in {"mounted", "crashed"}
  /\ i \in 1..Len(pending)
  /\ LET url  == pending[i]
         rest == SubSeq(pending, i + 1, Len(pending))
     IN  /\ searchParams' = url
         /\ IF url = searchParams \/ phase = "crashed"
            THEN /\ pending' = rest
                 /\ UNCHANGED <<allDoctors, filteredDoctors, searchTerm,
                                suggestions, selectedConsultation,
                                selectedSpecialties, sortBy, phase>>
            ELSE LET f == StateFromUrl(url)
                     searchChanged == f.searchTerm # searchTerm
                 IN  /\ pending' = Append(rest, updateUrlParams(f))
                     /\ searchTerm' = f.searchTerm
                     /\ selectedConsultation' = f.selectedConsultation
                     /\ selectedSpecialties' = f.selectedSpecialties
                     /\ sortBy' = f.sortBy
                     /\ filteredDoctors' = FilterAndSort(allDoctors.items, f)
                     /\ suggestions' = IF searchChanged
                                       THEN Suggest(allDoctors.items,
                                                    f.searchTerm)
                                       ELSE suggestions
                     /\ UNCHANGED <<allDoctors, phase>>
  /\ UNCHANGED <<isLoading, error, fetchStatus, fetchOutcome, escaped,
                 initialQuery, edits, lastEvent, requests>>

\* A user event: the handler's setState calls, then the render and effects.
\* edits counts the user's events and lastEvent names the last one.
UserEvent(name, f, newSpecs, sugg) ==
  /\ phase = "mounted"
  /\ edits < MaxEdits
  /\ Len(pending) < MaxPending
  /\ edits' = edits + 1
  /\ lastEvent' = name
  /\ Commit(allDoctors, f, newSpecs, FALSE, sugg)
  /\ UNCHANGED <<isLoading, error, searchParams, fetchStatus, fetchOutcome,
                 escaped, initialQuery, requests>>

handleSearchChange(value) ==
  /\ value # searchTerm
  /\ UserEvent("handleSearchChange", [Filter EXCEPT !.searchTerm = value],
               FALSE, suggestions)

\* The suggestion items on the page are those of the suggestions state.
handleSuggestionClick(doctorName) ==
  /\ \E i \in 1..Len(suggestions) : suggestions[i].name = doctorName
  /\ UserEvent("handleSuggestionClick",
               [Filter EXCEPT !.searchTerm = doctorName], FALSE, <<>>)

handleSearchSubmit ==
  UserEvent("handleSearchSubmit", Filter, FALSE, <<>>)

\* A radio button fires onChange only when it becomes checked.
handleConsultationChange(value) ==
  /\ selectedConsultation # Some(value)
  /\ UserEvent("handleConsultationChange",
               [Filter EXCEPT !.selectedConsultation = Some(value)],
               FALSE, suggestions)

clearConsultation ==
  /\ Truthy(selectedConsultation)
  /\ UserEvent("clearConsultation",
               [Filter EXCEPT !.selectedConsultation = Null],
               FALSE, suggestions)

\* One checkbox per name of uniqueSpecialties, checked when the name is
\* selected; the click toggles it.
handleSpecialtyChange(value) ==
  /\ allDoctors.shape = "array"
  /\ value \in SpecialtyNames(allDoctors.items)
  /\ LET checked == ~InSeq(value, selectedSpecialties)
         next == IF checked
                 THEN Append(selectedSpecialties, value)
                 ELSE SelectSeq(selectedSpecialties, LAMBDA s : s # value)
     IN  UserEvent("handleSpecialtyChange",
                   [Filter EXCEPT !.selectedSpecialties = next],
                   TRUE, suggestions)

clearSpecialties ==
  /\ Len(selectedSpecialties) > 0
  /\ UserEvent("clearSpecialties",
               [Filter EXCEPT !.selectedSpecialties = <<>>],
               TRUE, suggestions)

handleSortChange(value) ==
  /\ sortBy # Some(value)
  /\ UserEvent("handleSortChange", [Filter EXCEPT !.sortBy = Some(value)],
               FALSE, suggestions)

clearSort ==
  /\ Truthy(sortBy)
  /\ UserEvent("clearSort", [Filter EXCEPT !.sortBy = Null],
               FALSE, suggestions)

Next ==
  \/ Mount
  \/ \E outcome \in FetchOutcomes : FetchSettle(outcome)
  \/ \E i \in 1..MaxPending : DeliverReplace(i)
  \/ \E value \in SearchInputs : handleSearchChange(value)
  \/ \E d \in Doctors : handleSuggestionClick(d.name)
  \/ handleSearchSubmit
  \/ \E value \in {S_video, S_clinic} : handleConsultationChange(value)
  \/ clearConsultation
  \/ \E value \in {S_Dentist, S_ENT} : handleSpecialtyChange(value)
  \/ clearSpecialties
  \/ \E value \in {S_fees, S_exp} : handleSortChange(value)
  \/ clearSort

Spec == Init /\ [][Next]_vars

\* The page left alone by the user: the effects of the first commit run, the
\* fetch settles and the router applies every navigation it was handed.
NoInput ==
  \/ Mount
  \/ \E outcome \in FetchOutcomes : FetchSettle(outcome)
  \/ \E i \in 1..MaxPending : DeliverReplace(i)

NoInputSpec ==
  /\ Init
  /\ [][NoInput]_vars
  /\ WF_vars(Mount)
  /\ WF_vars(\E outcome \in FetchOutcomes : FetchSettle(outcome))
  /\ WF_vars(\E i \in 1..MaxPending : DeliverReplace(i))

(* ---------------- the page over a larger doctor directory ------------- *)
\* The same page and the same actions, with a response that can hold more
\* doctors than the autocomplete shows and specialty names that are not in
\* testIdOrder.  The response is any selection of the directory, in its
\* order; the user works the search box.
RosterNames ==
  << <<"A", "n", "a">>, <<"J", "a", "n">>, <<"B", "o">>, <<"D", "a", "n">>,
     <<"N", "a", "n">>, <<"R", "a", "n">>, <<"T", "a", "n">>,
     <<"Y", "a", "n">> >>

RosterSpecialities ==
  << <<S_Yoga>>, <<S_ENT, S_acu>>, <<S_Dentist>>, <<S_Vet, S_Yoga>>,
     <<S_vet>>, <<S_General>>, <<S_acu, S_Dentist>>, <<>> >>

RosterDoctor(i) ==
  [id |-> i, name |-> RosterNames[i], specialities |-> RosterSpecialities[i],
   fees |-> Null, experience |-> Null, video_consult |-> TRUE,
   in_clinic |-> TRUE]

Roster == [i \in 1..MaxRoster |-> RosterDoctor(i)]

RosterLists ==
  { SelectSeq(Roster, LAMBDA d : d.id \in chosen) :
      chosen \in SUBSET (1..MaxRoster) }

RosterOutcomes ==
  { [kind |-> "ok", body |-> ArrayOf(list)] : list \in RosterLists }
    \cup { [kind |-> "networkError", body |-> NoBody] }

RosterInputs == { <<>>, <<"A", "N">>, <<"B">> }

RosterInit ==
  /\ Init
  /\ searchParams \in { <<>>, << <<"search", S_an>> >> }

RosterNext ==
  \/ Mount
  \/ \E outcome \in RosterOutcomes : FetchSettle(outcome)
  \/ \E i \in 1..MaxPending : DeliverReplace(i)
  \/ \E value \in RosterInputs : handleSearchChange(value)
  \/ \E i \in 1..MaxRoster : handleSuggestionClick(Roster[i].name)
  \/ handleSearchSubmit

RosterSpec == RosterInit /\ [][RosterNext]_vars

(* ------------------------------ claims -------------------------------- *)
\* Nothing is in flight: every router.replace issued so far has been applied
\* and the effects it brought about have run.
Quiescent == phase = "mounted" /\ pending = <<>>

\* Two query strings hold the same four fields.
SameFields(p, q) ==
  /\ Get(p, "search") = Get(q, "search")
  /\ Get(p, "consultation") = Get(q, "consultation")
  /\ GetAll(p, "specialty") = GetAll(q, "specialty")
  /\ Get(p, "sort") = Get(q, "sort")

\* C1: round trip on load.  With no user input, once every effect and every
\* router.replace of the mount has run, the filter state is the one parsed
\* from the query string the page was opened with, and the URL still holds
\* the fields of that query string.
C1_RoundTripOnLoad ==
  (Quiescent /\ edits = 0) =>
    /\ Filter = StateFromUrl(initialQuery)
    /\ SameFields(searchParams, initialQuery)

\* C2: no infinite update loop.  With no user input, in every behaviour in
\* which the router and the fetch make progress, the chain state ->
\* router.replace -> searchParams -> state comes to rest: from some point on
\* nothing is in flight.
C2_NoUpdateLoop == <>[](pending = <<>>)

\* The query string p holds exactly the active fields of the filter f.
Count(b) == IF b THEN 1 ELSE 0

Projects(p, f) ==
  /\ Get(p, "search") = (IF f.searchTerm # <<>> THEN Some(f.searchTerm)
                         ELSE Null)
  /\ Get(p, "consultation") = (IF Truthy(f.selectedConsultation)
                               THEN f.selectedConsultation ELSE Null)
  /\ GetAll(p, "specialty") = f.selectedSpecialties
  /\ Get(p, "sort") = (IF Truthy(f.sortBy) THEN f.sortBy ELSE Null)
  /\ Len(p) = Count(f.searchTerm # <<>>) + Count(Truthy(f.selectedConsultation))
                + Len(f.selectedSpecialties) + Count(Truthy(f.sortBy))

\* C3: state -> URL projection.  Every step that changes a filter field
\* hands router.replace a query string holding exactly the active fields of
\* the new filter state (search iff the text is non-empty, consultation iff
\* a mode is set, one specialty entry per selected specialty, sort iff a key
\* is set, nothing else); and once nothing is in flight the URL of the page
\* is that projection of the filter state.
C3_StateToUrl ==
  /\ [][Filter' # Filter =>
          /\ pending' # <<>>
          /\ Projects(pending'[Len(pending')], Filter')]_vars
  /\ [](Quiescent => Projects(searchParams, Filter))

\* A user's change of the sort key and of nothing else has been written.
C3_Witness ==
  /\ lastEvent = "handleSortChange"
  /\ sortBy = Some(S_exp)
  /\ searchTerm = S_an
  /\ selectedSpecialties = <<S_Dentist, S_ENT>>
  /\ pending # <<>>
  /\ pending[Len(pending)] =
       << <<"search", S_an>>, <<"specialty", S_Dentist>>,
          <<"specialty", S_ENT>>, <<"sort", S_exp>> >>

Failures == {"networkError", "httpStatus", "parseError"}

\* C4: after a fetch failure of any kind an error message is stored, the
\* doctor collection and the filtered list are empty, the loading flag is
\* false, and no exception has left fetchData (the page is still mounted).
C4_FetchFailure ==
  fetchOutcome.kind \in Failures =>
    /\ error # Null
    /\ allDoctors = ArrayOf(<<>>)
    /\ filteredDoctors = <<>>
    /\ isLoading = FALSE
    /\ escaped = FALSE
    /\ phase = "mounted"

\* The fetch has settled with a non-success HTTP status.
C4_Witness ==
  /\ fetchStatus = "settled"
  /\ fetchOutcome.kind = "httpStatus"
  /\ error = Some(Message("httpStatus"))

\* C5: after a successful fetch the stored collection is the parsed array
\* when the body is an array and the empty array for every other JSON value,
\* and the error field is null.
C5_StoredCollection ==
  fetchOutcome.kind = "ok" =>
    /\ allDoctors = (IF fetchOutcome.body.shape = "array"
                     THEN fetchOutcome.body ELSE ArrayOf(<<>>))
    /\ error = Null

\* C6: a click on a suggestion leaves the search text equal to the name of
\* the clicked suggestion and the suggestion list empty, once the effects of
\* the click have run.
C6_SuggestionClick ==
  [][(lastEvent' = "handleSuggestionClick" /\ edits' = edits + 1) =>
        /\ \E i \in 1..Len(suggestions) : searchTerm' = suggestions[i].name
        /\ suggestions' = <<>>]_vars

RECURSIVE IsSubseq(_, _)
IsSubseq(s, t) ==
  IF s = <<>> THEN TRUE
  ELSE IF t = <<>> THEN FALSE
  ELSE IF Head(s) = Head(t) THEN IsSubseq(Tail(s), Tail(t))
  ELSE IsSubseq(s, Tail(t))

Occurrences(s, x) == Cardinality({i \in 1..Len(s) : s[i] = x})

\* C7: the filtered list holds only records of the raw list, none more often
\* than the raw list does, and with no sort key set it is a subsequence of
\* the raw list (same relative order).
C7_FilteredWithinRaw ==
  /\ \A i \in 1..Len(filteredDoctors) :
       /\ InSeq(filteredDoctors[i], allDoctors.items)
       /\ Occurrences(filteredDoctors, filteredDoctors[i])
            <= Occurrences(allDoctors.items, filteredDoctors[i])
  /\ ~Truthy(sortBy) => IsSubseq(filteredDoctors, allDoctors.items)

\* With no sort key, a filter keeps both of two fetched doctors whose fee
\* order is the reverse of their fetch order.
C7_Witness ==
  /\ phase = "mounted"
  /\ ~Truthy(sortBy)
  /\ searchTerm = S_an
  /\ Len(allDoctors.items) = 2
  /\ filteredDoctors = allDoctors.items
  /\ parseFee(filteredDoctors[1].fees) > parseFee(filteredDoctors[2].fees)

\* The filtered list holds exactly the raw records that satisfy keep.
HoldsExactly(keep(_)) ==
  \A d \in Doctors :
    Occurrences(filteredDoctors, d) =
      (IF keep(d) THEN Occurrences(allDoctors.items, d) ELSE 0)

\* C8: with no search text and no specialty selected, mode video keeps
\* exactly the doctors with video_consult, mode clinic exactly those with
\* in_clinic, and any other non-empty mode keeps none.
C8_ConsultationStage ==
  (searchTerm = <<>> /\ selectedSpecialties = <<>>
     /\ Truthy(selectedConsultation)) =>
    IF selectedConsultation = Some(S_video)
    THEN HoldsExactly(LAMBDA d : d.video_consult)
    ELSE IF selectedConsultation = Some(S_clinic)
    THEN HoldsExactly(LAMBDA d : d.in_clinic)
    ELSE filteredDoctors = <<>>

\* A mode that is neither video nor clinic, from the URL, with doctors
\* fetched.
C8_Witness ==
  /\ phase = "mounted"
  /\ searchTerm = <<>> /\ selectedSpecialties = <<>>
  /\ selectedConsultation = Some(S_tele)
  /\ Len(allDoctors.items) = 2
  /\ filteredDoctors = <<>>

Range(s) == {s[i] : i \in 1..Len(s)}

\* The raw records one of whose specialty names is name.
Matching(name) ==
  {d \in Range(allDoctors.items) : name \in Range(d.specialities)}

\* C9: with no search text and no consultation mode, a non-empty selection
\* keeps exactly the union over the selected names of the doctors having
\* that name among their specialties, and an empty selection keeps every
\* doctor.
C9_SpecialtyStage ==
  (searchTerm = <<>> /\ ~Truthy(selectedConsultation)) =>
    /\ Range(filteredDoctors) =
         (IF selectedSpecialties = <<>> THEN Range(allDoctors.items)
          ELSE UNION {Matching(n) : n \in Range(selectedSpecialties)})
    /\ \A d \in Doctors :
         Occurrences(filteredDoctors, d) <= Occurrences(allDoctors.items, d)

\* Two specialties selected, and a doctor kept who has only one of them.
C9_Witness ==
  /\ phase = "mounted"
  /\ searchTerm = <<>> /\ ~Truthy(selectedConsultation)
  /\ Range(selectedSpecialties) = {S_Dentist, S_ENT}
  /\ \E d \in Range(filteredDoctors) : Range(d.specialities) = {S_ENT}
  /\ \E d \in Range(filteredDoctors) : Range(d.specialities) = {S_Dentist}

\* The fee string holds no digit at all, or is missing.
Unparseable(fee) ==
  fee = Null \/ \A i \in 1..Len(fee[1]) : fee[1][i] \notin Digits

Position(s, x) == CHOOSE i \in 1..Len(s) : s[i] = x

\* A record with the given fee string, as far as the pipeline reads it.
WithFee(n, fee) ==
  [id |-> n, name |-> <<"D">>, specialities |-> <<>>, fees |-> Some(fee),
   experience |-> Null, video_consult |-> TRUE, in_clinic |-> TRUE]

\* The fees "R 500", "R 100", "abc" in this order, sorted by fee.
FeesExample ==
  LET d500 == WithFee(1, <<"R", " ", "5", "0", "0">>)
      d100 == WithFee(2, <<"R", " ", "1", "0", "0">>)
      dabc == WithFee(3, <<"a", "b", "c">>)
  IN  FilterAndSort(<<d500, d100, dabc>>,
                    [InitialFilter EXCEPT !.sortBy = Some(S_fees)])
        = <<dabc, d100, d500>>

\* C10: with sort key fees the filtered list is in non-decreasing order of
\* parsed fee, a fee without digits or a missing fee parses to 0, doctors of
\* equal parsed fee are in their raw-list order, and the fees
\* ["R 500", "R 100", "abc"] come out as ["abc", "R 100", "R 500"].
C10_FeeSort ==
  sortBy = Some(S_fees) =>
    /\ \A i, j \in 1..Len(filteredDoctors) :
         i < j =>
           /\ parseFee(filteredDoctors[i].fees)
                <= parseFee(filteredDoctors[j].fees)
           /\ parseFee(filteredDoctors[i].fees)
                = parseFee(filteredDoctors[j].fees)
              => Position(allDoctors.items, filteredDoctors[i])
                   < Position(allDoctors.items, filteredDoctors[j])
    /\ \A i \in 1..Len(filteredDoctors) :
         Unparseable(filteredDoctors[i].fees)
           => parseFee(filteredDoctors[i].fees) = 0
    /\ FeesExample

\* Sorted by fee, a doctor with a fee that does not parse has moved in front
\* of one fetched before it.
C10_Witness ==
  /\ phase = "mounted"
  /\ sortBy = Some(S_fees)
  /\ Len(allDoctors.items) = 2
  /\ Len(filteredDoctors) = 2
  /\ filteredDoctors[1] = allDoctors.items[2]
  /\ Unparseable(filteredDoctors[1].fees)
  /\ parseFee(filteredDoctors[2].fees) > 0

\* The experience string does not start with a digit, or is missing.
NoLeadingInteger(exp) ==
  exp = Null \/ exp[1] = <<>> \/ exp[1][1] \notin Digits

\* A record with the given experience string, as far as the pipeline reads
\* it.
WithExperience(n, exp) ==
  [id |-> n, name |-> <<"D">>, specialities |-> <<>>, fees |-> Null,
   experience |-> Some(exp), video_consult |-> TRUE, in_clinic |-> TRUE]

\* "5 Years of experience" before "13 Years of experience" comes out with
\* the 13 first; with "Years" and "" around them, both of which count as 0,
\* those two come last, in the order they were in.
ExperienceExample ==
  LET e5     == WithExperience(1, <<"5", " ", "Y", "e", "a", "r", "s">>)
      e13    == WithExperience(2, <<"1", "3", " ", "Y", "e", "a", "r", "s">>)
      eYears == WithExperience(3, <<"Y", "e", "a", "r", "s">>)
      eEmpty == WithExperience(4, <<>>)
      byExp  == [InitialFilter EXCEPT !.sortBy = Some(S_exp)]
  IN  /\ FilterAndSort(<<e5, e13>>, byExp) = <<e13, e5>>
      /\ FilterAndSort(<<eYears, e5, eEmpty, e13>>, byExp)
           = <<e13, e5, eYears, eEmpty>>

\* C11: with sort key experience the filtered list is in non-increasing
\* order of the leading integer of the experience string, a string without
\* a leading integer (or a missing one) counts as 0, doctors of equal parsed
\* experience are in their raw-list order, and ["5 Years of experience",
\* "13 Years of experience"] comes out with the 13-year entry first.
C11_ExperienceSort ==
  sortBy = Some(S_exp) =>
    /\ \A i, j \in 1..Len(filteredDoctors) :
         i < j =>
           /\ parseExperience(filteredDoctors[i].experience)
                >= parseExperience(filteredDoctors[j].experience)
           /\ parseExperience(filteredDoctors[i].experience)
                = parseExperience(filteredDoctors[j].experience)
              => Position(allDoctors.items, filteredDoctors[i])
                   < Position(allDoctors.items, filteredDoctors[j])
    /\ \A i \in 1..Len(filteredDoctors) :
         NoLeadingInteger(filteredDoctors[i].experience)
           => parseExperience(filteredDoctors[i].experience) = 0
    /\ ExperienceExample

\* Sorted by experience, the doctor with 13 years has moved in front of the
\* one with 5 years fetched before it.
C11_Witness ==
  /\ phase = "mounted"
  /\ sortBy = Some(S_exp)
  /\ Len(allDoctors.items) = 2
  /\ Len(filteredDoctors) = 2
  /\ filteredDoctors[1] = allDoctors.items[2]
  /\ parseExperience(filteredDoctors[1].experience) = 13
  /\ parseExperience(filteredDoctors[2].experience) = 5

\* The raw records whose name contains the search text, whatever the case of
\* either, in the order of the raw list.
NameMatches ==
  SelectSeq(allDoctors.items,
            LAMBDA d : includes(toLowerCase(d.name), toLowerCase(searchTerm)))

\* C12: the suggestion list has at most 5 entries, is empty when the search
\* text is empty, and is a selection, in order and without repeats, of the
\* raw records whose name contains the search text case-insensitively.
C12_SuggestionsBounded ==
  /\ Len(suggestions) <= 5
  /\ searchTerm = <<>> => suggestions = <<>>
  /\ IsSubseq(suggestions, NameMatches)
  /\ Len(suggestions) <= Len(NameMatches)

\* More than five doctors match the search text and five are suggested.
C12_Witness ==
  /\ phase = "mounted"
  /\ searchTerm # <<>>
  /\ Len(NameMatches) > 5
  /\ Len(suggestions) = 5
  /\ suggestions = SubSeq(NameMatches, 1, 5)

\* C13: the request is issued once, at mount, and never again, whatever the
\* user does, whatever URL arrives and however the request ends; the loading
\* flag is true from construction until the request settles, false from then
\* on, and never true again.
C13_FetchOnce ==
  /\ [](/\ requests <= 1
        /\ phase # "constructed" => requests = 1
        /\ isLoading <=> fetchStatus # "settled")
  /\ [][phase # "constructed" => requests' = requests]_vars
  /\ [][~isLoading => ~isLoading']_vars

\* The request failed, the user has changed a filter since the page was
\* opened, every navigation has been applied, and there was one request.
C13_Witness ==
  /\ phase = "mounted"
  /\ fetchStatus = "settled"
  /\ fetchOutcome.kind # "ok"
  /\ edits >= 1
  /\ pending = <<>>
  /\ searchParams # initialQuery
  /\ requests = 1
  /\ ~isLoading

Listed(name) == indexOf(testIdOrder, name) # -1

\* The specialty names of the directory that testIdOrder does not have, in
\* alphabetical order.
Alphabetical == <<S_acu, S_vet, S_Vet, S_Yoga>>

\* C14: the specialty list of the filter panel has each specialty name of the
\* fetched doctors exactly once; the names of the preferred list come first,
\* in the order of that list, and the other names follow in alphabetical
\* order.
C14_SpecialtyOrder ==
  LET u == uniqueSpecialties(allDoctors.items)
  IN  /\ Range(u) = SpecialtyNames(allDoctors.items)
      /\ \A i, j \in 1..Len(u) : i < j =>
           /\ u[i] # u[j]
           /\ Listed(u[j]) => Listed(u[i])
           /\ Listed(u[i]) /\ Listed(u[j]) =>
                Position(testIdOrder, u[i]) < Position(testIdOrder, u[j])
           /\ ~Listed(u[i]) /\ ~Listed(u[j]) =>
                Position(Alphabetical, u[i]) < Position(Alphabetical, u[j])

\* The fetched doctors name three specialties of the preferred list and four
\* others, none of them in the place the list of the panel gives it.
C14_Witness ==
  /\ phase = "mounted"
  /\ CollectSpecialties(allDoctors.items, <<>>) =
       <<S_Yoga, S_ENT, S_acu, S_Dentist, S_Vet, S_vet, S_General>>
  /\ uniqueSpecialties(allDoctors.items) =
       <<S_General, S_Dentist, S_ENT, S_acu, S_vet, S_Vet, S_Yoga>>

\* The user events that change a filter field.
FieldEdits ==
  {"handleSearchChange", "handleConsultationChange", "clearConsultation",
   "handleSpecialtyChange", "clearSpecialties", "handleSortChange",
   "clearSort"}

\* C15: once the user has changed a filter field, the arrival of a URL that
\* is not the one written for the current filter state (a navigation issued
\* for an earlier state and still in flight at the user's change) leaves the
\* filter state as it is, so that the state the page comes to rest in is the
\* one of the user's last change.
C15_EditNotOverwritten ==
  [][(/\ lastEvent \in FieldEdits
      /\ edits' = edits
      /\ searchParams' # searchParams
      /\ ~Projects(searchParams', Filter)) => Filter' = Filter]_vars

====
